---- MODULE Spec2Model ----
(***************************************************************************)
(* Model of the simulation core of RelativityVisualizer.js: the particle   *)
(* integrator, the wave/orbit integrator, the observer-effect formulas and *)
(* the React render/animation loop that drives them.                       *)
(*                                                                         *)
(* Arithmetic.  The program computes in IEEE doubles; the model computes   *)
(* in scaled integers (TLC integers are 32 bit, every intermediate product *)
(* below is kept under 2^31):                                              *)
(*   positions and radii   in units of 1/PS  (PS = 100)                    *)
(*   accelerations         in units of 1/AS  (AS = 1000)                   *)
(*   velocities            in units of 1/VS  (VS = 10000 = AS * 10)        *)
(*   merger separation     in units of 1/TS  (TS = 10000)                  *)
(*   observer effects      in units of 1/ES  (ES = 1000000)                *)
(*   ray coordinates       in units of 1/RS  (RS = 1000)                   *)
(*   frameTime and dt      in hundredths resp. tenths of a time unit       *)
(*   rotation              in tenths                                       *)
(* Divisions round toward zero.  Math.random() is a nondeterministic       *)
(* choice from small sets; angles are chosen among directions whose sine   *)
(* and cosine are rational (multiples of 1/5).                             *)
(***************************************************************************)
EXTENDS Integers, Sequences, FiniteSets, TLC

VARIABLES
    mass,               \* useState(10), slider 1..50
    rotation,           \* useState(0), slider 0..1 step 0.1 (tenths)
    particleCount,      \* useState(50)
    particleSpeed,      \* useState(0.3) (VS units)
    observer1Position,  \* useState(30), slider 10..50
    observer2Position,  \* useState(20), slider 5..45
    activeTab,          \* useState('spacetime')
    extremeObjectType,  \* useState('blackhole')
    simulationRunning,  \* useState(false)
    frameTime,          \* useState(0) (hundredths)
    queue,              \* setFrameTime updates not yet applied by a render
    dirty,              \* a state other than frameTime changed since the last render
    animationRef,       \* animationRef.current: id of the last callback requested (0: null)
    rafPending,         \* ids of the animation-frame callbacks requested and not yet run
    particles,          \* particlesRef.current
    wavePoints,         \* wavePointsRef.current
    waveTime,           \* the `time` argument of the last updateWaves call
    dtArg,              \* the time step handed to updateParticles (tenths)
    steps,              \* number of renders / integrator calls so far
    changes,            \* number of user inputs so far
    ret                 \* outcome of the last call of a core function

vars == <<mass, rotation, particleCount, particleSpeed, observer1Position,
          observer2Position, activeTab, extremeObjectType, simulationRunning,
          frameTime, queue, dirty, animationRef, rafPending, particles, wavePoints,
          waveTime, dtArg, steps, changes, ret>>

uiVars == <<activeTab, extremeObjectType, simulationRunning, frameTime, queue,
            dirty, animationRef, rafPending, wavePoints, waveTime>>

obsVars == <<observer1Position, observer2Position>>

-----------------------------------------------------------------------------
(* Scales and program constants *)

PS == 100
AS == 1000
VS == 10000
TS == 10000

TrailCap == 20          \* if (newTrail.length > 20) newTrail.shift()

(* Bounds of the model *)
MaxSteps == 23          \* integrator calls per run
MaxCount == 2           \* largest particle count

MassValues == {10, 50}
RotationValues == {0, 5}
SpeedValues == {3000}
DtValues == {-1, 0, 1}

(* Math.random() draws used by initParticles and by a respawn: a direction *)
(* <<cos, sin>> in thousandths, a distance in [10, 50) and a speed factor  *)
(* in tenths out of [0.8, 1.2): one draw at the inner end of the band, off *)
(* the axes, and one at the outer end.  Both directions are exact.         *)
Draws == {[dir |-> <<-600, 800>>, dist |-> 10, fac |-> 10],
          [dir |-> <<1000, 0>>, dist |-> 49, fac |-> 8]}

(* The same draws and one at the inner end of the band whose direction,    *)
(* like Math.cos and Math.sin of most angles, is a rounded value.          *)
RoundedDraws == Draws \cup {[dir |-> <<707, 707>>, dist |-> 10, fac |-> 10]}

-----------------------------------------------------------------------------
(* Arithmetic helpers *)

Abs(a) == IF a < 0 THEN -a ELSE a

\* JavaScript `/` on the scaled integers, rounded toward zero
Div(a, b) ==
    LET q == Abs(a) \div Abs(b)
    IN  IF (a < 0) = (b < 0) THEN q ELSE -q

RECURSIVE SqrtSearch(_, _, _)
SqrtSearch(n, lo, hi) ==
    IF lo >= hi THEN lo
    ELSE \* mid ranges over a singleton, so it is computed once per level
         CHOOSE r \in {IF mid * mid <= n THEN SqrtSearch(n, mid, hi)
                                          ELSE SqrtSearch(n, lo, mid - 1) :
                        mid \in {(lo + hi + 1) \div 2}} : TRUE

\* Math.sqrt, rounded down
Sqrt(n) == SqrtSearch(n, 0, 46340)

\* the square root of q / scale^2 in units of 1 / (scale * digits): the
\* integer root s of q, refined by (q - s*s) / (2*s)
RefinedRoot(q, digits) ==
    LET s == Sqrt(q)
    IN  IF s = 0 THEN 0 ELSE s * digits + ((q - s * s) * digits) \div (2 * s)

-----------------------------------------------------------------------------
(* Particle integrator *)

\* one iteration of the loop of initParticles, with the draws d
NewParticle(i, d, speed) ==
    LET x == (d.dist * PS * d.dir[1]) \div 1000
        y == (d.dist * PS * d.dir[2]) \div 1000
        s == (speed * d.fac) \div 10
        r == Sqrt(x * x + y * y)
    IN  [x |-> x, y |-> y,
         vx |-> Div((-y) * s, r), vy |-> Div(x * s, r),
         trail |-> <<>>, color |-> i]

initParticles(count, speed, rnd) ==
    [i \in 1..count |-> NewParticle(i, rnd[i], speed)]

\* const r = Math.sqrt(x*x + y*y)
Radius(p) == Sqrt(p.x * p.x + p.y * p.y)

\* const eventHorizon = 2 * centralMass * SCALE_FACTOR
EventHorizon(m) == (2 * m * PS) \div 10

Absorbed_Inclusive(p, m) == Radius(p) <= EventHorizon(m)

\* if (r < eventHorizon)
Absorbed(p, m) == Radius(p) < EventHorizon(m)

\* the branch taken inside the horizon: a new particle that keeps the colour
Respawn(p, d, speed) ==
    LET n == NewParticle(p.color, d, speed)
    IN  [n EXCEPT !.color = p.color]

\* a full trail that keeps its oldest position and drops the new one
PushTrail_DropNewest(trail, pos) ==
    IF Len(trail) >= TrailCap THEN trail ELSE Append(trail, pos)

PushTrail_Unbounded(trail, pos) == Append(trail, pos)

\* const newTrail = [...trail, { x, y }]; if (newTrail.length > 20) newTrail.shift()
PushTrail(trail, pos) ==
    LET newTrail == Append(trail, pos)
    IN  IF Len(newTrail) > TrailCap THEN Tail(newTrail) ELSE newTrail

\* the step with the position advanced by the velocity held before it
StepParticle_OldVelocity(p, dt, m, rot) ==
    LET r == Radius(p)
        forceMagnitude == Div(m * PS * PS * AS, r * r)
        forceX == Div((-p.x) * forceMagnitude, r)
        forceY == Div((-p.y) * forceMagnitude, r)
        frameX == IF rot > 0 THEN Div((-p.y) * rot * 2 * forceMagnitude, r * 100) ELSE 0
        frameY == IF rot > 0 THEN Div(p.x * rot * 2 * forceMagnitude, r * 100) ELSE 0
    IN  [x |-> p.x + Div(p.vx * dt, 1000), y |-> p.y + Div(p.vy * dt, 1000),
         vx |-> p.vx + (forceX + frameX) * dt, vy |-> p.vy + (forceY + frameY) * dt,
         trail |-> PushTrail(p.trail, <<p.x, p.y>>), color |-> p.color]

\* the branch taken at or outside the horizon.  rotationEffect * y is
\* evaluated as (y / r) * rotation * 0.2 * (mass / r^2), which keeps r^3 out
\* of the 32-bit range.
StepParticle(p, dt, m, rot) ==
    LET r == Radius(p)
        forceMagnitude == Div(m * PS * PS * AS, r * r)
        forceX == Div((-p.x) * forceMagnitude, r)
        forceY == Div((-p.y) * forceMagnitude, r)
        frameX == IF rot > 0 THEN Div((-p.y) * rot * 2 * forceMagnitude, r * 100) ELSE 0
        frameY == IF rot > 0 THEN Div(p.x * rot * 2 * forceMagnitude, r * 100) ELSE 0
        newVx == p.vx + (forceX + frameX) * dt
        newVy == p.vy + (forceY + frameY) * dt
        newX == p.x + Div(newVx * dt, 1000)
        newY == p.y + Div(newVy * dt, 1000)
    IN  [x |-> newX, y |-> newY, vx |-> newVx, vy |-> newVy,
         trail |-> PushTrail(p.trail, <<p.x, p.y>>), color |-> p.color]

\* the indices of the particles the next call will respawn
AbsorbedSet(ps, m) == {i \in DOMAIN ps : Absorbed(ps[i], m)}

UpdateParticles_Drop(ps, dt, m, rot, speed, rnd) ==
    LET kept == SelectSeq(ps, LAMBDA p : ~Absorbed(p, m))
    IN  [i \in 1..Len(kept) |-> StepParticle(kept[i], dt, m, rot)]

\* particles.map(particle => ...); rnd[i] are the draws of particle i
updateParticles(ps, dt, m, rot, speed, rnd) ==
    [i \in 1..Len(ps) |->
        IF Absorbed(ps[i], m) THEN Respawn(ps[i], rnd[i], speed)
        ELSE StepParticle(ps[i], dt, m, rot)]

-----------------------------------------------------------------------------
(* Math.exp, Math.sin, Math.cos.  Angles are in 1/1000 rad; exp and the    *)
(* trigonometric values are fixed-point approximations.                    *)

ES == 1000000           \* scale of Exp
Pi == 3142              \* Math.PI in 1/1000 rad
TwoPi == 6283

Max(a, b) == IF a >= b THEN a ELSE b

\* floor(a * b / ES) for 0 <= a, b <= ES
MulES(a, b) == (a * (b \div 1000) + (a * (b % 1000)) \div 1000) \div 1000

\* Math.exp(-0.3 a), Math.exp(-0.03 a), Math.exp(-0.003 a), Math.exp(-0.0003 a), a = 0..9
ExpTable3 == <<1000000, 740818, 548812, 406570, 301194, 223130, 165299, 122456, 90718, 67206>>
ExpTable2 == <<1000000, 970446, 941765, 913931, 886920, 860708, 835270, 810584, 786628, 763379>>
ExpTable1 == <<1000000, 997004, 994018, 991040, 988072, 985112, 982161, 979219, 976286, 973361>>
ExpTable0 == <<1000000, 999700, 999400, 999100, 998801, 998501, 998202, 997902, 997603, 997304>>

\* Math.exp(-time * decayRate) with decayRate = 0.03 and time = h / 100,
\* 0 <= h < 10000, in units of 1/ES
ExpDecay(h) ==
    MulES(MulES(MulES(ExpTable3[(h \div 1000) + 1], ExpTable2[((h \div 100) % 10) + 1]),
                ExpTable1[((h \div 10) % 10) + 1]),
          ExpTable0[(h % 10) + 1])

\* sin on [0, Pi], in thousandths (Bhaskara's rational approximation)
SinHalf(a) ==
    LET q == a * (Pi - a)
    IN  (16 * q) \div ((49348022 - 4 * q) \div 1000)

\* Math.sin and Math.cos of an angle a >= 0, in thousandths
Sin(a) ==
    LET b == a % TwoPi
    IN  IF b <= Pi THEN SinHalf(b) ELSE -SinHalf(b - Pi)

Cos(a) == Sin(a + 1571)

-----------------------------------------------------------------------------
(* Wave integrator.  A wave point is a record with the fields of the       *)
(* program; x, y, sourceX, sourceY are in position units, angle and phase  *)
(* in 1/1000 rad, displacement in thousandths.                             *)

WaveCount == 1          \* waveCount (100 in the program)
Phases == {0, 1571}     \* Math.random() * Math.PI * 2

\* the two points pushed by iteration i of generateWavePoints
WavePointPair(i, ph1, ph2) ==
    LET angle == (i * TwoPi) \div WaveCount
        radius == 5 * PS + (i * PS) \div 2
    IN  <<[x |-> -10 * PS + Div(radius * Cos(angle), 1000),
           y |-> Div(radius * Sin(angle), 1000),
           source |-> 1, radius |-> radius, angle |-> angle, phase |-> ph1,
           displacement |-> 0, sourceX |-> -10 * PS, sourceY |-> 0],
          [x |-> 10 * PS + Div(radius * Cos(angle), 1000),
           y |-> Div(radius * Sin(angle), 1000),
           source |-> 2, radius |-> radius, angle |-> angle, phase |-> ph2,
           displacement |-> 0, sourceX |-> 10 * PS, sourceY |-> 0]>>

RECURSIVE WavePointsFrom(_, _)
WavePointsFrom(i, rnd) ==
    IF i >= WaveCount THEN <<>>
    ELSE WavePointPair(i, rnd[2 * i + 1], rnd[2 * i + 2]) \o WavePointsFrom(i + 1, rnd)

\* generateWavePoints(); rnd[k] is the phase drawn for the k-th point
generateWavePoints(rnd) == WavePointsFrom(0, rnd)

\* Math.max(2, initialDistance * Math.exp(-time * decayRate)), position units
WaveSourceDistance(time) == Max(2 * PS, (10 * PS * ExpDecay(time)) \div ES)

\* the body of points.map in updateWaves
UpdateWavePoint(point, time, amplitude, frequency) ==
    LET orbitAngle == (time * 5) \div 10
        distance == WaveSourceDistance(time)
        sx == Div(distance * Cos(orbitAngle), 1000)
        sy == Div(distance * Sin(orbitAngle), 1000)
        sourceX == IF point.source = 1 THEN -sx ELSE sx
        sourceY == IF point.source = 1 THEN -sy ELSE sy
        newAngle == point.angle + time
    IN  [point EXCEPT
           !.x = sourceX + Div(point.radius * Cos(newAngle), 1000),
           !.y = sourceY + Div(point.radius * Sin(newAngle), 1000),
           !.angle = newAngle,
           !.displacement = Div(Sin((time * frequency) \div 10 + point.phase) * amplitude, 10),
           !.sourceX = sourceX,
           !.sourceY = sourceY]

\* updateWaves(points, time, amplitude, frequency); time in hundredths,
\* amplitude in tenths, frequency in hundredths
updateWaves(points, time, amplitude, frequency) ==
    [i \in 1..Len(points) |-> UpdateWavePoint(points[i], time, amplitude, frequency)]

-----------------------------------------------------------------------------
(* Merger orbit (renderExtremeObjects, case 'merger') *)

\* Math.max(5, initialSeparation * Math.exp(-time * decayRate)), in 1/TS
MergerSeparation_NoFloor(time) == (40 * ExpDecay(time)) \div 100

MergerSeparation(time) == Max(5 * TS, (40 * ExpDecay(time)) \div 100)

\* time * 0.05 * Math.pow(separation / initialSeparation, -1.5), in 1/1000 rad
MergerOrbitAngle(time, separation) ==
    LET ratio == separation \div 40
        ratio15 == (ratio * Sqrt(ratio * TS)) \div TS
        power == (TS * TS) \div ratio15
    IN  (time * power) \div 20000

MergerState_Strict(separation) ==
    IF separation < 5 * TS THEN "Merger"
    ELSE IF separation < 10 * TS THEN "Merger imminent"
    ELSE IF separation < 15 * TS THEN "Late inspiral"
    ELSE "Early inspiral"

\* let mergerState = "Early inspiral"; if (separation < 15) ...
MergerState(separation) ==
    IF separation < 7 * TS THEN "Merger"
    ELSE IF separation < 10 * TS THEN "Merger imminent"
    ELSE IF separation < 15 * TS THEN "Late inspiral"
    ELSE "Early inspiral"

\* what one render of the merger view computes from frameTime
MergerView(time) ==
    LET separation == MergerSeparation(time)
        orbitAngle == MergerOrbitAngle(time, separation)
    IN  [op |-> "merger", error |-> "none", time |-> time,
         separation |-> separation, orbitAngle |-> orbitAngle,
         bh1x |-> -Div((separation \div 100) * 4 * Cos(orbitAngle), 10000),
         bh1y |-> -Div((separation \div 100) * 4 * Sin(orbitAngle), 10000),
         bh2x |-> Div((separation \div 100) * 6 * Cos(orbitAngle), 10000),
         bh2y |-> Div((separation \div 100) * 6 * Sin(orbitAngle), 10000),
         mergerState |-> MergerState(separation)]

-----------------------------------------------------------------------------
(* The rotating (Kerr) black hole: the radii computed by the "kerr" case   *)
(* of renderExtremeObjects, in units of 1/ES; rot is the spin in tenths    *)
(* (the rotation slider, 0..1), so the root is real for every mass >= 1.   *)

\* the root taken of kerrMass^2 + kerrSpin^2
KerrRoot_SumOfSquares(m, rot) == RefinedRoot((100 * m * m + rot * rot) * 100, 10000)

\* Math.sqrt(kerrMass*kerrMass - kerrSpin*kerrSpin)
KerrRoot(m, rot) == RefinedRoot((100 * m * m - rot * rot) * 100, 10000)

KerrView(m, rot) ==
    LET rPlus == m * ES + KerrRoot(m, rot)
        rMinus == m * ES - KerrRoot(m, rot)
    IN  [op |-> "kerr",
         rPlus |-> rPlus,
         rMinus |-> rMinus,
         horizonRadius |-> rPlus \div 10,
         ergoRadius |-> (2 * m * ES) \div 10]

-----------------------------------------------------------------------------
(* Initial values of the component state (the useState / useRef defaults) *)

InitUI ==
    /\ activeTab = "spacetime"
    /\ extremeObjectType = "blackhole"
    /\ simulationRunning = FALSE
    /\ frameTime = 0
    /\ queue = <<>>
    /\ animationRef = 0
    /\ rafPending = {}
    /\ wavePoints = <<>>
    /\ waveTime = 0

InitObservers ==
    /\ observer1Position = 30
    /\ observer2Position = 20

NoCall == [op |-> "none", error |-> "none"]

-----------------------------------------------------------------------------
(* SpecParticles: the particle integrator called on its own.  A run starts *)
(* from a particle set made by initParticles and calls updateParticles     *)
(* with one mass, rotation and time step.                                  *)

InitParticles ==
    /\ InitUI
    /\ dirty = FALSE
    /\ InitObservers
    /\ mass \in MassValues
    /\ rotation \in RotationValues
    /\ particleSpeed \in SpeedValues
    /\ particleCount \in 1..MaxCount
    /\ dtArg \in DtValues
    /\ \E rnd \in [1..particleCount -> Draws] :
           particles = initParticles(particleCount, particleSpeed, rnd)
    /\ steps = 0
    /\ changes = 0
    /\ ret = NoCall

\* particlesRef.current = updateParticles(particlesRef.current, dt, mass, rotation)
UpdateParticlesCall ==
    /\ steps < MaxSteps
    /\ \E rnd \in [AbsorbedSet(particles, mass) -> Draws] :
           particles' = updateParticles(particles, dtArg, mass, rotation, particleSpeed, rnd)
    /\ steps' = steps + 1
    /\ ret' = [op |-> "updateParticles", error |-> "none"]
    /\ UNCHANGED <<mass, rotation, particleCount, particleSpeed, dtArg, changes>>
    /\ UNCHANGED uiVars
    /\ UNCHANGED obsVars

NextParticles == UpdateParticlesCall

SpecParticles == InitParticles /\ [][NextParticles]_vars

-----------------------------------------------------------------------------
(* SpecRespawn: one particle created and respawned with rounded            *)
(* directions, stepped a few times while the mass slider moves between     *)
(* the calls.                                                              *)

MaxRespawnSteps == 4    \* integrator calls per run
MaxMassChanges == 2     \* moves of the mass slider per run

InitRespawn ==
    /\ InitUI
    /\ dirty = FALSE
    /\ InitObservers
    /\ mass \in MassValues
    /\ rotation = 0
    /\ particleSpeed \in SpeedValues
    /\ particleCount = 1
    /\ dtArg = 1
    /\ \E rnd \in [1..particleCount -> RoundedDraws] :
           particles = initParticles(particleCount, particleSpeed, rnd)
    /\ steps = 0
    /\ changes = 0
    /\ ret = NoCall

RespawnStep ==
    /\ steps < MaxRespawnSteps
    /\ \E rnd \in [AbsorbedSet(particles, mass) -> RoundedDraws] :
           particles' = updateParticles(particles, dtArg, mass, rotation, particleSpeed, rnd)
    /\ steps' = steps + 1
    /\ ret' = [op |-> "updateParticles", error |-> "none"]
    /\ UNCHANGED <<mass, rotation, particleCount, particleSpeed, dtArg, changes>>
    /\ UNCHANGED uiVars
    /\ UNCHANGED obsVars

\* onChange={(e) => setMass(Number(e.target.value))}, between two calls
MassBetweenSteps ==
    /\ changes < MaxMassChanges
    /\ changes' = changes + 1
    /\ \E m \in MassValues \ {mass} : mass' = m
    /\ UNCHANGED <<rotation, particleCount, particleSpeed, dtArg, particles, steps, ret>>
    /\ UNCHANGED uiVars
    /\ UNCHANGED obsVars

NextRespawn ==
    \/ RespawnStep
    \/ MassBetweenSteps

SpecRespawn == InitRespawn /\ [][NextRespawn]_vars

-----------------------------------------------------------------------------
(* Spec: the component.  A state setter called by a handler, by a render   *)
(* or by the animation-frame callback is queued; the next render applies   *)
(* the queue, runs the cleanup of the previous effect and the effect body  *)
(* (the view of the active tab and the scheduling of the next callback).   *)
(* The tabs without animation (spacetime, observer, singularity) behave    *)
(* alike and are represented by "spacetime".                               *)

MaxTicks == 3           \* renders with the simulation running, per run
MaxInputs == 3          \* user inputs per run

Tabs == {"spacetime", "particles", "waves", "extreme"}
ObjectTypes == {"blackhole", "neutron", "kerr", "merger"}
SliderSpeeds == {1000, 3000}
WaveAmplitude == 5      \* useState(0.5), tenths
WaveFrequency == 5      \* useState(0.05), hundredths

Add(n) == [kind |-> "add", v |-> n]
Set(n) == [kind |-> "set", v |-> n]

\* React applies the queued setFrameTime updates in order
RECURSIVE ApplyQueue(_, _)
ApplyQueue(t, q) ==
    IF q = <<>> THEN t
    ELSE ApplyQueue(IF Head(q).kind = "set" THEN Head(q).v ELSE t + Head(q).v, Tail(q))

\* the condition under which the effect schedules an animation frame
Animated ==
    \/ activeTab = "particles"
    \/ activeTab = "waves"
    \/ activeTab = "extreme" /\ extremeObjectType # "blackhole"

Init ==
    /\ InitUI
    /\ InitObservers
    /\ dirty = TRUE
    /\ mass = 10
    /\ rotation = 0
    /\ particleCount = 1
    /\ particleSpeed = 3000
    /\ dtArg = 1
    /\ particles = <<>>
    /\ steps = 0
    /\ changes = 0
    /\ ret = NoCall

\* the id requestAnimationFrame returns: one that no pending callback has
FreshId(pending) == CHOOSE i \in 1..(Cardinality(pending) + 1) : i \notin pending

\* the effect's cleanup and set-up, given which callbacks the cleanup cancels
Schedule(cancelled) ==
    LET kept == rafPending \ cancelled
    IN  IF simulationRunning /\ Animated
        THEN /\ animationRef' = FreshId(kept)
             /\ rafPending' = kept \cup {animationRef'}
        ELSE /\ animationRef' = animationRef
             /\ rafPending' = kept

\* a cleanup that cancels the callback only once the simulation is paused
Commit_CancelOnPause ==
    /\ dirty \/ ApplyQueue(frameTime, queue) # frameTime
    /\ frameTime' = ApplyQueue(frameTime, queue)
    /\ dirty' = FALSE
    /\ Schedule(IF simulationRunning THEN {} ELSE {animationRef})
    /\ UNCHANGED <<mass, rotation, particleCount, particleSpeed, dtArg, changes,
                   activeTab, extremeObjectType, simulationRunning>>
    /\ UNCHANGED obsVars

Commit_NoCancel ==
    /\ dirty \/ ApplyQueue(frameTime, queue) # frameTime
    /\ frameTime' = ApplyQueue(frameTime, queue)
    /\ dirty' = FALSE
    /\ Schedule({})
    /\ UNCHANGED <<mass, rotation, particleCount, particleSpeed, dtArg, changes,
                   activeTab, extremeObjectType, simulationRunning>>
    /\ UNCHANGED obsVars

\* the part common to every run of the effect: the render is due, the queue
\* is applied, the previous callback is cancelled, a new one is scheduled
Commit ==
    /\ dirty \/ ApplyQueue(frameTime, queue) # frameTime
    /\ frameTime' = ApplyQueue(frameTime, queue)
    /\ dirty' = FALSE
    /\ Schedule({animationRef})
    /\ UNCHANGED <<mass, rotation, particleCount, particleSpeed, dtArg, changes,
                   activeTab, extremeObjectType, simulationRunning>>
    /\ UNCHANGED obsVars

\* the model follows at most MaxTicks renders of a running simulation
CountTick ==
    /\ simulationRunning => steps < MaxTicks
    /\ steps' = IF simulationRunning THEN steps + 1 ELSE steps

RenderStatic ==
    /\ CountTick
    /\ activeTab = "spacetime" \/ (activeTab = "extreme" /\ extremeObjectType = "blackhole")
    /\ Commit
    /\ queue' = <<>>
    /\ UNCHANGED <<particles, wavePoints, waveTime, ret>>

RenderParticleView ==
    /\ CountTick
    /\ activeTab = "particles"
    /\ Commit
    /\ \E rnd \in (IF Len(particles) = 0 THEN [1..particleCount -> Draws] ELSE {<<>>}) :
         LET current == IF Len(particles) = 0
                        THEN initParticles(particleCount, particleSpeed, rnd)
                        ELSE particles
         IN  IF simulationRunning
             THEN /\ \E rnd2 \in [AbsorbedSet(current, mass) -> Draws] :
                         particles' = updateParticles(current, dtArg, mass, rotation,
                                                      particleSpeed, rnd2)
                  /\ queue' = <<Add(10)>>
             ELSE /\ particles' = current
                  /\ queue' = <<>>
    /\ UNCHANGED <<wavePoints, waveTime, ret>>

RenderGravitationalWaves ==
    /\ CountTick
    /\ activeTab = "waves"
    /\ Commit
    /\ \E rnd \in (IF Len(wavePoints) = 0 THEN [1..(2 * WaveCount) -> Phases] ELSE {<<>>}) :
         LET current == IF Len(wavePoints) = 0 THEN generateWavePoints(rnd) ELSE wavePoints
         IN  IF simulationRunning
             THEN /\ wavePoints' = updateWaves(current, frameTime', WaveAmplitude, WaveFrequency)
                  /\ waveTime' = frameTime'
                  /\ queue' = <<Add(10)>>
             ELSE /\ wavePoints' = current
                  /\ waveTime' = waveTime
                  /\ queue' = <<>>
    /\ UNCHANGED <<particles, ret>>

RenderNeutron ==
    /\ CountTick
    /\ activeTab = "extreme" /\ extremeObjectType = "neutron"
    /\ Commit
    /\ queue' = IF simulationRunning THEN <<Add(2)>> ELSE <<>>
    /\ UNCHANGED <<particles, wavePoints, waveTime, ret>>

KerrFrame ==
    /\ activeTab = "extreme" /\ extremeObjectType = "kerr"
    /\ Commit
    /\ ret' = KerrView(mass, rotation)
    /\ queue' = IF simulationRunning THEN <<Add(5)>> ELSE <<>>
    /\ UNCHANGED <<particles, wavePoints, waveTime>>

RenderKerr == KerrFrame /\ CountTick

\* a running render above the floor that queues no advance of frameTime
MergerFrame_NoAdvance ==
    /\ activeTab = "extreme" /\ extremeObjectType = "merger"
    /\ Commit
    /\ ret' = MergerView(frameTime')
    /\ queue' = IF ret'.separation <= 5 * TS /\ simulationRunning THEN <<Set(0)>>
                ELSE <<>>
    /\ UNCHANGED <<particles, wavePoints, waveTime>>

MergerFrame ==
    /\ activeTab = "extreme" /\ extremeObjectType = "merger"
    /\ Commit
    /\ ret' = MergerView(frameTime')
    /\ queue' = IF ret'.separation <= 5 * TS /\ simulationRunning THEN <<Set(0)>>
                ELSE IF simulationRunning THEN <<Add(10)>>
                ELSE <<>>
    /\ UNCHANGED <<particles, wavePoints, waveTime>>

RenderMerger == MergerFrame /\ CountTick

\* requestAnimationFrame(() => { setFrameTime(prev => prev + 0.1); })
AnimationFrame ==
    /\ \E id \in rafPending : rafPending' = rafPending \ {id}
    /\ queue' = Append(queue, Add(10))
    /\ UNCHANGED <<animationRef, mass, rotation, particleCount, particleSpeed, dtArg, particles,
                   steps, changes, ret, activeTab, extremeObjectType,
                   simulationRunning, frameTime, dirty, wavePoints, waveTime>>
    /\ UNCHANGED obsVars

\* the part common to every user input
Handler ==
    /\ dirty' = TRUE
    /\ UNCHANGED <<dtArg, steps, ret, frameTime, animationRef, rafPending, wavePoints,
                   waveTime>>
    /\ UNCHANGED obsVars

\* the model follows at most MaxInputs user inputs
Input ==
    /\ changes < MaxInputs
    /\ changes' = changes + 1
    /\ Handler

\* onClick={() => setSimulationRunning(!simulationRunning)}
TogglePress ==
    /\ activeTab \in {"particles", "waves", "extreme"}
    /\ Handler
    /\ simulationRunning' = ~simulationRunning
    /\ UNCHANGED <<mass, rotation, particleCount, particleSpeed, particles,
                   activeTab, extremeObjectType, queue>>

ToggleSimulation == TogglePress /\ changes < MaxInputs /\ changes' = changes + 1

\* onClick={() => setActiveTab(...)}
SelectTab ==
    /\ Input
    /\ \E tab \in Tabs \ {activeTab} : activeTab' = tab
    /\ UNCHANGED <<mass, rotation, particleCount, particleSpeed, particles,
                   simulationRunning, extremeObjectType, queue>>

\* setExtremeObjectType(e.target.value); setFrameTime(0)
SelectObjectType ==
    /\ activeTab = "extreme"
    /\ Input
    /\ \E type \in ObjectTypes \ {extremeObjectType} : extremeObjectType' = type
    /\ queue' = Append(queue, Set(0))
    /\ UNCHANGED <<mass, rotation, particleCount, particleSpeed, particles,
                   simulationRunning, activeTab>>

\* onChange={(e) => setMass(Number(e.target.value))}
ChangeMass ==
    /\ Input
    /\ \E m \in MassValues \ {mass} : mass' = m
    /\ UNCHANGED <<rotation, particleCount, particleSpeed, particles,
                   simulationRunning, activeTab, extremeObjectType, queue>>

\* onChange={(e) => setRotation(Number(e.target.value))}
ChangeRotation ==
    /\ Input
    /\ \E r \in RotationValues \ {rotation} : rotation' = r
    /\ UNCHANGED <<mass, particleCount, particleSpeed, particles,
                   simulationRunning, activeTab, extremeObjectType, queue>>

\* a slider that sets the count and keeps the particle set
ChangeParticleCount_NoReset ==
    /\ activeTab = "particles"
    /\ Input
    /\ \E n \in (1..MaxCount) \ {particleCount} : particleCount' = n
    /\ particles' = particles
    /\ UNCHANGED <<mass, rotation, particleSpeed,
                   simulationRunning, activeTab, extremeObjectType, queue>>

\* setParticleCount(Number(e.target.value)); particlesRef.current = []
ChangeParticleCount ==
    /\ activeTab = "particles"
    /\ Input
    /\ \E n \in (1..MaxCount) \ {particleCount} : particleCount' = n
    /\ particles' = <<>>
    /\ UNCHANGED <<mass, rotation, particleSpeed,
                   simulationRunning, activeTab, extremeObjectType, queue>>

\* setParticleSpeed(Number(e.target.value)); particlesRef.current = []
ChangeParticleSpeed ==
    /\ activeTab = "particles"
    /\ Input
    /\ \E v \in SliderSpeeds \ {particleSpeed} : particleSpeed' = v
    /\ particles' = <<>>
    /\ UNCHANGED <<mass, rotation, particleCount,
                   simulationRunning, activeTab, extremeObjectType, queue>>

Next ==
    \/ RenderStatic
    \/ RenderParticleView
    \/ RenderGravitationalWaves
    \/ RenderNeutron
    \/ RenderKerr
    \/ RenderMerger
    \/ AnimationFrame
    \/ ToggleSimulation
    \/ SelectTab
    \/ SelectObjectType
    \/ ChangeMass
    \/ ChangeRotation
    \/ ChangeParticleCount
    \/ ChangeParticleSpeed

Spec == Init /\ [][Next]_vars

-----------------------------------------------------------------------------
(* SpecMerger: the merger view left running (and paused and resumed) from  *)
(* frameTime = 0 until it loops, without a limit on the number of renders. *)

InitMerger ==
    /\ activeTab = "extreme"
    /\ extremeObjectType = "merger"
    /\ simulationRunning = TRUE
    /\ frameTime = 0
    /\ queue = <<>>
    /\ animationRef = 0
    /\ rafPending = {}
    /\ wavePoints = <<>>
    /\ waveTime = 0
    /\ InitObservers
    /\ dirty = TRUE
    /\ mass = 10
    /\ rotation = 0
    /\ particleCount = 1
    /\ particleSpeed = 3000
    /\ dtArg = 1
    /\ particles = <<>>
    /\ steps = 0
    /\ changes = 0
    /\ ret = NoCall

MergerRender == MergerFrame /\ UNCHANGED steps

MergerToggle == TogglePress /\ UNCHANGED changes

NextMerger ==
    \/ MergerRender
    \/ AnimationFrame
    \/ MergerToggle

SpecMerger == InitMerger /\ [][NextMerger]_vars

\* SpecMergerLoop: the merger view left running and never paused.  React
\* renders again whenever a queued update changes frameTime, so a render
\* that is due is eventually made; nothing is assumed about when the
\* browser runs a requested animation frame.
NextMergerLoop ==
    \/ MergerRender
    \/ AnimationFrame

SpecMergerLoop ==
    InitMerger /\ [][NextMergerLoop]_vars /\ WF_vars(MergerRender)

-----------------------------------------------------------------------------
(* SpecKerr: the Kerr view rendered, paused, for a position of the mass    *)
(* and rotation sliders.                                                   *)

RotationMin == 0
RotationMax == 10

InitKerr ==
    /\ activeTab = "extreme"
    /\ extremeObjectType = "kerr"
    /\ simulationRunning = FALSE
    /\ frameTime = 0
    /\ queue = <<>>
    /\ animationRef = 0
    /\ rafPending = {}
    /\ wavePoints = <<>>
    /\ waveTime = 0
    /\ InitObservers
    /\ dirty = TRUE
    /\ mass \in 1..50                  \* the mass slider
    /\ rotation \in RotationMin..RotationMax
    /\ particleCount = 1
    /\ particleSpeed = 3000
    /\ dtArg = 1
    /\ particles = <<>>
    /\ steps = 0
    /\ changes = 0
    /\ ret = NoCall

KerrRender == KerrFrame /\ UNCHANGED steps

NextKerr == KerrRender

SpecKerr == InitKerr /\ [][NextKerr]_vars

-----------------------------------------------------------------------------
(* Observer effects.  A double is modelled as a record: a finite number    *)
(* [k |-> "num", v |-> n] with n in units of 1/ES (six decimals, the       *)
(* resolution of the percentages printed with toFixed(4)), or one of the   *)
(* special values "inf", "ninf", "nan".                                    *)

Num(n) == [k |-> "num", v |-> n]
Inf == [k |-> "inf", v |-> 0]
NegInf == [k |-> "ninf", v |-> 0]
NaN == [k |-> "nan", v |-> 0]

IsFinite(f) == f.k = "num"

\* floor(a * TS * TS / b) for 0 <= a, 0 < b, a < 16 * b
ScaledRatio(a, b) ==
    LET q1 == (a * TS) \div b
        r1 == (a * TS) % b
    IN  q1 * TS + (r1 * TS) \div b

\* floor(a * ES / b) for 0 <= a, 0 < b, by long division two digits at a time
DivES(a, b) ==
    LET r0 == a % b
        r1 == (r0 * 100) % b
        r2 == (r1 * 100) % b
    IN  (a \div b) * ES + ((r0 * 100) \div b) * TS + ((r1 * 100) \div b) * 100
            + (r2 * 100) \div b

\* Math.sqrt(n / d) of the exact quotient n / d, d > 0
SqrtQ(n, d) ==
    IF n < 0 THEN NaN
    ELSE IF n < 16 * d THEN Num(RefinedRoot(ScaledRatio(n, d), 100))
    ELSE Num(RefinedRoot((n * TS) \div d, 10000))

\* 1 / f
FRecip(f) ==
    CASE f.k = "nan" -> NaN
      [] f.k = "inf" -> Num(0)
      [] f.k = "ninf" -> Num(0)
      [] f.k = "num" /\ f.v = 0 -> Inf
      [] OTHER -> Num(DivES(ES, f.v))

\* a / b for a, b >= 0 or special
FDivide(a, b) ==
    CASE a.k = "nan" \/ b.k = "nan" -> NaN
      [] a.k # "num" /\ b.k # "num" -> NaN
      [] a.k # "num" -> a
      [] b.k # "num" -> Num(0)
      [] b.v = 0 /\ a.v = 0 -> NaN
      [] b.v = 0 -> Inf
      [] OTHER -> Num(DivES(a.v, b.v))

\* f - 1
FMinusOne(f) == IF f.k = "num" THEN Num(f.v - ES) ELSE f

\* Math.abs(f)
FAbs(f) ==
    CASE f.k = "num" -> Num(Abs(f.v))
      [] f.k = "ninf" -> Inf
      [] OTHER -> f

\* f > 0 and f > 1 (false for NaN)
FPositive(f) == f.k = "inf" \/ (f.k = "num" /\ f.v > 0)
FAboveOne(f) == f.k = "inf" \/ (f.k = "num" /\ f.v > ES)

\* 1 - 2 * potential * SCALE_FACTOR with potential = m / r, as the exact
\* quotient TermNum / TermDen
TermNum(m, r) == 5 * r - m
TermDen(m, r) == 5 * r

\* mass / r
potential(m, r) == Num(DivES(m, r))

\* timeDilation without the square root
TimeDilation_NoRoot(m, r) ==
    IF TermNum(m, r) > 0 THEN Num(DivES(TermDen(m, r), TermNum(m, r))) ELSE NaN

\* timeDilation without the reciprocal
TimeDilation_NoRecip(m, r) == SqrtQ(TermNum(m, r), TermDen(m, r))

\* 1 / Math.sqrt(1 - (2 * potential * SCALE_FACTOR))
timeDilation(m, r) == FRecip(SqrtQ(TermNum(m, r), TermDen(m, r)))

\* Math.sqrt(2 * potential * SCALE_FACTOR)
escapeVelocity(m, r) == SqrtQ(m, 5 * r)

\* redshift without the final subtraction of 1
Redshift_NoMinusOne(m, r1, r2) ==
    LET n1 == TermNum(m, r1)
        n2 == TermNum(m, r2)
    IN  IF n1 <= 0 \/ n2 < 0 THEN NaN
        ELSE SqrtQ(n2 * TermDen(m, r1), TermDen(m, r2) * n1)

\* Math.sqrt((1 - 2 * potential2 * SCALE_FACTOR) / (1 - 2 * potential1 * SCALE_FACTOR)) - 1
redshift(m, r1, r2) ==
    LET n1 == TermNum(m, r1)
        n2 == TermNum(m, r2)
    IN  IF n1 = 0
        THEN (IF n2 > 0 THEN Inf ELSE NaN)
        ELSE IF (n2 < 0) # (n1 < 0) /\ n2 # 0
        THEN NaN
        ELSE FMinusOne(SqrtQ(Abs(n2) * TermDen(m, r1), TermDen(m, r2) * Abs(n1)))

\* the relative time dilation taken as timeDilation1 / timeDilation2
RelativeTimeDilation_Swapped(timeDilation2, timeDilation1) ==
    FDivide(timeDilation1, timeDilation2)

\* timeDilation2 / timeDilation1
relativeTimeDilation(timeDilation2, timeDilation1) ==
    FDivide(timeDilation2, timeDilation1)

calculateRelativisticEffects(m, r1, r2) ==
    LET timeDilation1 == timeDilation(m, r1)
        timeDilation2 == timeDilation(m, r2)
    IN  [potential1 |-> potential(m, r1),
         potential2 |-> potential(m, r2),
         timeDilation1 |-> timeDilation1,
         timeDilation2 |-> timeDilation2,
         relativeTimeDilation |-> relativeTimeDilation(timeDilation2, timeDilation1),
         redshift |-> redshift(m, r1, r2),
         escapeVelocity1 |-> escapeVelocity(m, r1),
         escapeVelocity2 |-> escapeVelocity(m, r2)]

\* generateFacts printing the percentages as computed, without Math.abs
\* 31536000 * Math.abs(relativeTimeDilation - 1): whole seconds s and
\* thousandths ms of a finite value
secondsDifference(rel) ==
    LET d == FAbs(FMinusOne(rel))
        dh == d.v \div 1000
        dl == d.v % 1000
    IN  IF d.k # "num" THEN [k |-> d.k, s |-> 0, ms |-> 0]
        ELSE [k |-> "num", s |-> 31536 * dh + (31536 * dl) \div 1000,
              ms |-> (31536 * dl) % 1000]

\* the parts formatTimeDifference prints.  Of a seconds value that is not
\* finite every part but the years is NaN, and no part of NaN is printed.
formatTimeDifference(seconds) ==
    IF seconds.k # "num" THEN [kind |-> "nonfinite", empty |-> seconds.k = "nan"]
    ELSE IF seconds.s < 60
    THEN [kind |-> "seconds", empty |-> FALSE,
          hundredths |-> seconds.s * 100 + (seconds.ms + 5) \div 10]
    ELSE LET years == seconds.s \div 31536000
             remainingAfterYears == seconds.s % 31536000
             months == remainingAfterYears \div 2592000
             remainingAfterMonths == remainingAfterYears % 2592000
             days == remainingAfterMonths \div 86400
             remainingAfterDays == remainingAfterMonths % 86400
             hours == remainingAfterDays \div 3600
             remainingAfterHours == remainingAfterDays % 3600
             minutes == remainingAfterHours \div 60
             remainingSeconds == remainingAfterHours % 60
         IN  [kind |-> "breakdown",
              years |-> years, months |-> months, days |-> days, hours |-> hours,
              minutes |-> minutes, seconds |-> remainingSeconds,
              empty |-> /\ years = 0 /\ months = 0 /\ days = 0
                        /\ hours = 0 /\ minutes = 0 /\ remainingSeconds = 0]

GenerateFacts_NoAbs(effects) ==
    [timeDilationFact |->
         [slower |-> IF FAboveOne(effects.relativeTimeDilation) THEN 2 ELSE 1,
          percent |-> FMinusOne(effects.relativeTimeDilation)],
     clockFact |-> formatTimeDifference(secondsDifference(effects.relativeTimeDilation)),
     redshiftFact |->
         [from |-> IF FPositive(effects.redshift) THEN 2 ELSE 1,
          percent |-> effects.redshift]]

\* the sentences of generateFacts that name an observer (who is named and
\* the number printed in front of the % sign, in units of 0.0001 percent) and
\* the clock difference after one year
generateFacts(effects) ==
    LET timeDilationPercent == FMinusOne(effects.relativeTimeDilation)
        redshiftPercent == effects.redshift
    IN  [timeDilationFact |->
             IF FAboveOne(effects.relativeTimeDilation)
             THEN [slower |-> 2, percent |-> timeDilationPercent]
             ELSE [slower |-> 1, percent |-> FAbs(timeDilationPercent)],
         clockFact |-> formatTimeDifference(secondsDifference(effects.relativeTimeDilation)),
         redshiftFact |->
             IF FPositive(effects.redshift)
             THEN [from |-> 2, percent |-> redshiftPercent]
             ELSE [from |-> 1, percent |-> FAbs(redshiftPercent)]]

-----------------------------------------------------------------------------
(* SpecEffects: the observer effects and the facts computed for every      *)
(* position of the mass and observer-distance sliders.                     *)

MassMin == 1
MassMax == 50
Observer1Min == 10
Observer1Max == 50
Observer2Min == 5
Observer2Max == 45

InitEffects ==
    /\ InitUI
    /\ dirty = FALSE
    /\ mass \in MassMin..MassMax
    /\ observer1Position \in Observer1Min..Observer1Max
    /\ observer2Position \in Observer2Min..Observer2Max
    /\ rotation = 0
    /\ particleCount = 1
    /\ particleSpeed = 3000
    /\ dtArg = 1
    /\ particles = <<>>
    /\ steps = 0
    /\ changes = 0
    /\ ret = NoCall

\* const relativisticEffects = calculateRelativisticEffects();
\* const facts = generateFacts(relativisticEffects);
ComputeEffects ==
    /\ ret.op = "none"
    /\ LET effects == calculateRelativisticEffects(mass, observer1Position, observer2Position)
       IN  ret' = [op |-> "effects", error |-> "none",
                   effects |-> effects, facts |-> generateFacts(effects)]
    /\ UNCHANGED <<mass, rotation, particleCount, particleSpeed, dtArg,
                   particles, steps, changes>>
    /\ UNCHANGED uiVars
    /\ UNCHANGED obsVars

NextEffects == ComputeEffects

SpecEffects == InitEffects /\ [][NextEffects]_vars

\* 2 * (m / r) * 0.1 < 1, in exact arithmetic
InDomain(m, r) == 2 * m < 10 * r

\* C5: for every position of the sliders, 2 * (mass / r) * 0.1 < 1 for both
\* observers, the time dilations and the redshift are finite and both
\* escape velocities are below 1.
C5_SlidersStayInDomain ==
    ret.op = "effects" =>
        /\ InDomain(mass, observer1Position)
        /\ InDomain(mass, observer2Position)
        /\ IsFinite(ret.effects.timeDilation1)
        /\ IsFinite(ret.effects.timeDilation2)
        /\ IsFinite(ret.effects.redshift)
        /\ ret.effects.escapeVelocity1.v < ES
        /\ ret.effects.escapeVelocity2.v < ES

\* C6: when 2 * potential * 0.1 >= 1 for an observer the computation signals
\* InvalidDomain, and no fact is built from a NaN or infinite value.
C6_InvalidDomainSignalled ==
    ret.op = "effects" =>
        /\ (~InDomain(mass, observer1Position) \/ ~InDomain(mass, observer2Position))
               => ret.error = "InvalidDomain"
        /\ ret.error = "none" =>
               /\ IsFinite(ret.facts.timeDilationFact.percent)
               /\ IsFinite(ret.facts.redshiftFact.percent)

-----------------------------------------------------------------------------
(* Claims about the wave and merger models and the render loop *)

\* the k-th wave point as generateWavePoints made it
InitialWavePoint(k, phase) ==
    WavePointPair((k - 1) \div 2, phase, phase)[2 - (k % 2)]

\* C4: a wave point is recomputed from the elapsed time and not integrated:
\* its angle and (x, y) are those obtained from its initial radius, angle,
\* phase and source and the time of the last updateWaves call alone (the
\* value the first call at that time gives), whatever ticks came before.
C4_WavePointsFromTimeOnly ==
    \A k \in DOMAIN wavePoints :
        LET p == wavePoints[k]
            p0 == InitialWavePoint(k, p.phase)
            pt == UpdateWavePoint(p0, waveTime, WaveAmplitude, WaveFrequency)
        IN  \/ p = p0
            \/ (p.angle = pt.angle /\ p.x = pt.x /\ p.y = pt.y)

\* C8: the merger separation is max(5, 40 exp(-0.03 t)) of the rendered time
\* alone: it is at least 5, at most 40, at the floor exactly from t = 69.32
\* on, it does not grow when t grows, and a second render at the same t
\* gives the same separation and orbital angle.
C8_SeparationFromTime ==
    /\ [](ret.op = "merger" =>
            /\ ret.separation >= 5 * TS
            /\ ret.separation <= 40 * TS
            /\ (ret.separation = 5 * TS <=> ret.time >= 6932)
            /\ (ret.time = 0 => ret.separation = 40 * TS /\ ret.orbitAngle = 0))
    /\ [][(ret.op = "merger" /\ ret'.op = "merger") =>
            /\ ret'.time > ret.time => ret'.separation <= ret.separation
            /\ ret'.time < ret.time => ret'.separation >= ret.separation
            /\ ret'.time = ret.time =>
                   (ret'.separation = ret.separation /\ ret'.orbitAngle = ret.orbitAngle)]_vars

\* the view rendered at the floor after a run from t = 0
C8_Witness ==
    /\ ret.op = "merger"
    /\ ret.time >= 6932
    /\ ret.separation = 5 * TS
    /\ frameTime = ret.time

\* C9: a render of the merger view at separation 5 reports "Merger" and, if
\* the simulation runs, sets frameTime to 0; a render at a separation above
\* 5 with the simulation running advances frameTime by 0.1 and does not
\* reset it.
C9_MergerReset ==
    [][MergerFrame =>
        /\ ret'.separation <= 5 * TS =>
              /\ ret'.mergerState = "Merger"
              /\ simulationRunning => queue' = <<Set(0)>>
        /\ (ret'.separation > 5 * TS /\ simulationRunning) =>
              queue' = <<Add(10)>>
        /\ ApplyQueue(frameTime', queue') =
              IF ~simulationRunning THEN frameTime'
              ELSE IF 40 * ExpDecay(frameTime') <= 5 * ES THEN 0
              ELSE frameTime' + 10]_vars

\* the running merger view was rendered at the floor and has queued the reset
C9_Witness ==
    /\ simulationRunning
    /\ ret.op = "merger"
    /\ ret.mergerState = "Merger"
    /\ ret.separation = 5 * TS
    /\ queue = <<Set(0)>>

\* C10: once the paused state has been rendered, nothing but a user input
\* changes frameTime, the particle set or the wave points: no callback is
\* scheduled, no update is queued and no render is due.
C10_PausedIsQuiet ==
    /\ []((~simulationRunning /\ ~dirty) => (rafPending = {} /\ queue = <<>>))
    /\ [][(~simulationRunning /\ ~dirty /\ ~dirty') =>
            /\ UNCHANGED <<frameTime, particles, wavePoints>>
            /\ ApplyQueue(frameTime', queue') = frameTime]_vars

\* a simulation that has run, was paused, and whose paused state is rendered
C10_Witness ==
    /\ ~simulationRunning
    /\ ~dirty
    /\ steps >= 2
    /\ frameTime > 0
    /\ Len(particles) > 0
    /\ \E i \in DOMAIN particles : particles[i].trail # <<>>

-----------------------------------------------------------------------------
(* Claims about the particle integrator (checked under SpecParticles) *)

\* the squared radius of p and the squared horizon radius 2 * mass * 0.1,
\* both in squared position units
RadiusSq(p) == p.x * p.x + p.y * p.y
HorizonSq(m) == (4 * m * m * PS * PS) \div 100

\* particle i came out of the last call as a fresh particle
JustRespawned(q) == q.trail = <<>>

\* C1: a call of updateParticles returns as many particles as it was given,
\* whatever the mass, the rotation, the time step and the position of the
\* particles relative to the horizon: absorption replaces a particle.
C1_PopulationPreserved ==
    [][Len(particles') = Len(particles) /\ Len(particles') = particleCount]_vars

\* a two-particle set, after some calls, one of whose particles has just been
\* absorbed and replaced
C1_Witness ==
    /\ steps >= 2
    /\ Len(particles) = 2
    /\ \E i \in DOMAIN particles : JustRespawned(particles[i])

\* C2: the trail of every particle holds at most 20 positions, after
\* initParticles, after every updateParticles call and after every respawn.
C2_TrailBounded ==
    \A i \in DOMAIN particles : Len(particles[i].trail) <= 20

\* a particle that has been stepped more than 20 times without being absorbed:
\* its trail is full and the oldest position has been dropped
C2_Witness ==
    /\ steps >= 22
    /\ \E i \in DOMAIN particles :
           /\ Len(particles[i].trail) = 20
           /\ particles[i].trail[1] # particles[i].trail[20]

C7_NonPositiveDtRejected ==
    [][(steps' = steps + 1 /\ dtArg <= 0) =>
        (ret'.error = "InvalidArgument" /\ particles' = particles)]_vars

-----------------------------------------------------------------------------
(* Claims about the sessions and the frame loop (checked under Spec) *)

\* a render with the simulation running: one tick of the active view
Tick == steps' = steps + 1

\* C11: the particle set and the orbit state belong to separate sessions: a
\* tick of the particle view queues no change of the elapsed time frameTime
\* that the wave and merger models read, and a tick of the wave view or of an
\* extreme-object view leaves the particle set unchanged.
C11_SessionsSeparate ==
    [][Tick =>
        /\ activeTab = "particles" => ApplyQueue(frameTime', queue') = frameTime'
        /\ activeTab \in {"waves", "extreme"} => particles' = particles]_vars

\* the increment a running view adds to frameTime when it is rendered
ViewIncrement ==
    IF activeTab = "extreme" /\ extremeObjectType = "neutron" THEN 2
    ELSE IF activeTab = "extreme" /\ extremeObjectType = "kerr" THEN 5
    ELSE 10

\* C12: one tick per displayed frame: a render of a running animated view
\* that follows a render of the same view with no user input in between
\* finds frameTime advanced by exactly the increment of the view (0.1 for
\* particles, waves and merger, 0.02 for neutron, 0.05 for kerr), whether or
\* not the animation-frame callback ran before the render cancelled it.
C12_OneTickPerFrame ==
    [][(Tick /\ Animated /\ ~dirty /\ queue # <<>> /\ Head(queue).kind = "add") =>
        frameTime' = frameTime + ViewIncrement]_vars

-----------------------------------------------------------------------------
(* Light rays.  Positions and velocities of a ray are integers in units of *)
(* 1/RS.  A sample carries, next to its coordinates, the radius its z was  *)
(* divided by and the floor that radius was compared with before the       *)
(* division (0: the code makes no comparison).                             *)

RS == 1000
NumPaths == 8           \* numPaths = 8
RaySteps == 100         \* const steps = 100
RayCutoff == 2500       \* if (r < 2.5) break

\* <<Math.cos(angle), Math.sin(angle)>> for angle = i * 2 * Math.PI / 8
RayDirs == <<<<1000, 0>>, <<707, 707>>, <<0, 1000>>, <<-707, 707>>,
             <<-1000, 0>>, <<-707, -707>>, <<0, -1000>>, <<707, -707>>>>

\* Math.sqrt(x*x + y*y), rounded down; the products of coordinates above 32
\* are taken on tenths of the coordinates to stay within the integer range
RayRadius(x, y) ==
    IF Abs(x) > 32000 \/ Abs(y) > 32000
    THEN 10 * Sqrt((x \div 10) * (x \div 10) + (y \div 10) * (y \div 10))
    ELSE Sqrt(x * x + y * y)

\* a pull of the same size along both axes, whatever the coordinate
RayPull_NoDirection(c, m, r) == Div(Div(Div(r * m * 100, r) * 10000, r) * 1000, r)

\* c * forceFactor with forceFactor = mass / (r*r*r)
RayPull(c, m, r) == Div(Div(Div(c * m * 100, r) * 10000, r) * 1000, r)

\* -mass / r; a zero radius gives -Infinity
RayZ(m, r) == IF r = 0 THEN NegInf ELSE Num(Div(-(m * RS * RS), r))

RaySample(x, y, m, r, floor) ==
    [x |-> Num(x), y |-> Num(y), z |-> RayZ(m, r), r |-> r, floor |-> floor]

\* the sample pushed once the velocity has become NaN
NaNSample == [x |-> NaN, y |-> NaN, z |-> NaN, r |-> 0, floor |-> RayCutoff]

\* RayStep recording the sample before it tests the radius
RayStep_RecordBeforeBreak(s, m, rot) ==
    IF s.done THEN s
    ELSE LET x1 == s.x + s.vx
             y1 == s.y + s.vy
             r == RayRadius(x1, y1)
             path == Append(s.path, RaySample(x1, y1, m, r, RayCutoff))
         IN  [x |-> x1, y |-> y1, vx |-> s.vx, vy |-> s.vy,
              path |-> path, done |-> r < RayCutoff, nan |-> FALSE]

\* one iteration of the loop of calculateLightPaths on the ray s: its
\* position, velocity, the path so far and whether the loop was left by the
\* break (done) or the velocity has become NaN (nan); rot in tenths
RayStep(s, m, rot) ==
    IF s.done THEN s
    ELSE IF s.nan THEN [s EXCEPT !.path = Append(@, NaNSample)]
    ELSE LET x1 == s.x + s.vx
             y1 == s.y + s.vy
             r == RayRadius(x1, y1)
         IN  IF r < RayCutoff THEN [s EXCEPT !.done = TRUE]
             ELSE LET pullX == RayPull(x1, m, r)
                      pullY == RayPull(y1, m, r)
                      rvx == IF rot > 0
                             THEN s.vx - pullX + Div((-pullY) * rot * 2, 100)
                             ELSE s.vx - pullX
                      rvy == IF rot > 0
                             THEN s.vy - pullY + Div(pullX * rot * 2, 100)
                             ELSE s.vy - pullY
                      vMag == Sqrt(rvx * rvx + rvy * rvy)
                      path == Append(s.path, RaySample(x1, y1, m, r, RayCutoff))
                  IN  IF vMag = 0
                      THEN [s EXCEPT !.x = x1, !.y = y1, !.nan = TRUE, !.path = path]
                      ELSE [x |-> x1, y |-> y1,
                            vx |-> Div(rvx * 500, vMag), vy |-> Div(rvy * 500, vMag),
                            path |-> path, done |-> FALSE, nan |-> FALSE]

\* n iterations of the loop, left early by the break
RECURSIVE RayLoop(_, _, _, _)
RayLoop(s, n, m, rot) ==
    IF n = 0 \/ s.done THEN s
    ELSE RayLoop(RayStep(s, m, rot), n - 1, m, rot)

\* the path of ray i from the circle of radius sourceDistance
LightPath(i, m, rot, sourceDistance) ==
    LET cos == RayDirs[i + 1][1]
        sin == RayDirs[i + 1][2]
        x0 == sourceDistance * cos
        y0 == sourceDistance * sin
        r0 == RayRadius(x0, y0)
    IN  RayLoop([x |-> x0, y |-> y0,
                 vx |-> Div(-(cos * 500), RS), vy |-> Div(-(sin * 500), RS),
                 path |-> <<RaySample(x0, y0, m, r0, 0)>>,
                 done |-> FALSE, nan |-> FALSE],
                RaySteps, m, rot).path

calculateLightPaths(m, rot, sourceDistance) ==
    [i \in 1..NumPaths |-> LightPath(i - 1, m, rot, sourceDistance)]

-----------------------------------------------------------------------------
(* The curvature grid: the points (x, y) of a 21 x 21 lattice of spacing 3 *)
(* around the mass, with the depth z of the embedding surface.             *)

GridHalf == 30          \* size / 2
GridStep == 3           \* size / gridSize
GridFloor == 2000       \* if (r < 2) continue

GridCoords == {c \in -GridHalf..GridHalf : c % GridStep = 0}

\* Math.sqrt(x*x + y*y) of a lattice point, in units of 1/RS
GridRadius(x, y) == Sqrt((x * x + y * y) * RS * RS)

\* z = -mass / r, plus rotation * mass * Math.sin(theta) / (r*r) * 0.5 when
\* rotation > 0, where Math.sin(Math.atan2(y, x)) = y / r; rot in tenths
GridZ(x, y, m, rot) ==
    LET r == GridRadius(x, y)
        z == Div(-(m * RS * RS), r)
    IN  IF rot > 0 THEN z + Div(RayPull(y * RS, m, r) * rot, 20) ELSE z

\* the grid as the set of its points
calculateSpacetimeGrid(m, rot) ==
    {[x |-> x, y |-> y, z |-> GridZ(x, y, m, rot),
      r |-> GridRadius(x, y), floor |-> GridFloor] :
        <<x, y>> \in {p \in GridCoords \X GridCoords :
                         GridRadius(p[1], p[2]) >= GridFloor}}

-----------------------------------------------------------------------------
(* SpecGeometry: the curvature grid and the light rays computed by the     *)
(* spacetime view for a position of the mass, rotation and observer-1      *)
(* sliders (the rays start at the distance of observer 1).                 *)

RaySources == {10, 30, 50}
RayRotations == {0, 10}

InitGeometry ==
    /\ InitUI
    /\ dirty = FALSE
    /\ mass \in MassMin..MassMax
    /\ rotation \in RayRotations
    /\ observer1Position \in RaySources
    /\ observer2Position = 20
    /\ particleCount = 1
    /\ particleSpeed = 3000
    /\ dtArg = 1
    /\ particles = <<>>
    /\ steps = 0
    /\ changes = 0
    /\ ret = NoCall

\* const lightPaths = showLightPaths ? calculateLightPaths(mass, rotation) : []
ComputeLightPaths ==
    /\ ret.op = "none"
    /\ ret' = [op |-> "lightPaths", error |-> "none",
               paths |-> calculateLightPaths(mass, rotation, observer1Position)]
    /\ UNCHANGED <<mass, rotation, particleCount, particleSpeed, dtArg,
                   particles, steps, changes>>
    /\ UNCHANGED uiVars
    /\ UNCHANGED obsVars

\* const gridPoints = calculateSpacetimeGrid(mass, rotation)
ComputeGrid ==
    /\ ret.op = "none"
    /\ ret' = [op |-> "grid", error |-> "none",
               grid |-> calculateSpacetimeGrid(mass, rotation)]
    /\ UNCHANGED <<mass, rotation, particleCount, particleSpeed, dtArg,
                   particles, steps, changes>>
    /\ UNCHANGED uiVars
    /\ UNCHANGED obsVars

NextGeometry ==
    \/ ComputeLightPaths
    \/ ComputeGrid

SpecGeometry == InitGeometry /\ [][NextGeometry]_vars

-----------------------------------------------------------------------------
(* Claims about the light rays and the grid (checked under SpecGeometry) *)

\* C13: rays end at the radius at which particles are absorbed: the radius
\* below which calculateLightPaths ends a ray equals the horizon radius
\* 2 * mass * 0.1 of updateParticles, and no recorded ray sample lies
\* strictly inside that radius.
C13_RaysEndAtParticleHorizon ==
    ret.op = "lightPaths" =>
        /\ RayCutoff * PS = EventHorizon(mass) * RS
        /\ \A i \in DOMAIN ret.paths : \A k \in DOMAIN ret.paths[i] :
               ret.paths[i][k].r * PS >= EventHorizon(mass) * RS

\* C14: every ray path has between 1 and 101 samples with finite
\* coordinates, and no sample after the start sample has r < 2.5: the step
\* that brings the radius below 2.5 ends the ray and is not recorded.  For
\* mass = 10 and source radius 30 each of the 8 rays is ended by this
\* truncation: it has fewer than 101 samples and its last sample is within
\* one step (0.5) of the radius 2.5.
C14_RaysFiniteAndTruncated ==
    ret.op = "lightPaths" =>
        /\ Len(ret.paths) = 8
        /\ \A i \in DOMAIN ret.paths :
               LET path == ret.paths[i]
               IN  /\ Len(path) >= 1
                   /\ Len(path) <= 101
                   /\ \A k \in DOMAIN path :
                          /\ IsFinite(path[k].x)
                          /\ IsFinite(path[k].y)
                          /\ IsFinite(path[k].z)
                          /\ k > 1 => /\ path[k].r >= 2500
                                      /\ RayRadius(path[k].x.v, path[k].y.v) >= 2500
                   /\ (mass = 10 /\ observer1Position = 30) =>
                          /\ Len(path) < 101
                          /\ path[Len(path)].r <= 3001

\* the rays for mass = 10 from radius 30 without rotation: the ray along the
\* x axis has its 56th and last sample at radius 2.5 exactly
C14_Witness ==
    /\ ret.op = "lightPaths"
    /\ mass = 10
    /\ observer1Position = 30
    /\ rotation = 0
    /\ Len(ret.paths[1]) = 56
    /\ ret.paths[1][56].r = 2500

\* C15: every division by a radius in the grid and in the ray trace, the
\* start sample of a ray included, is made after the radius was compared
\* with a positive floor and found to be at least that floor, so no divisor
\* is zero.
C15_RadiiCheckedBeforeDivision ==
    /\ ret.op = "lightPaths" =>
           \A i \in DOMAIN ret.paths : \A k \in DOMAIN ret.paths[i] :
               /\ ret.paths[i][k].floor > 0
               /\ ret.paths[i][k].r >= ret.paths[i][k].floor
    /\ ret.op = "grid" =>
           \A g \in ret.grid : g.floor > 0 /\ g.r >= g.floor

-----------------------------------------------------------------------------
(* Claims about the observer effects and the facts (checked under          *)
(* SpecEffects)                                                            *)

\* both observers are in the domain 2 * potential * 0.1 < 1
BothInDomain == InDomain(mass, observer1Position) /\ InDomain(mass, observer2Position)

\* a value in units of 1/ES rounded to 3, 4 and 5 decimals
Round3(v) == (v + 500) \div 1000
Round4(v) == (v + 50) \div 100
Round5(v) == (v + 5) \div 10

\* C16: for both observers in the valid domain, the percentage printed in
\* timeDilationFact and the one printed in redshiftFact are finite and not
\* negative: a negative value is printed as its absolute value.
C16_PercentagesNonNegative ==
    (ret.op = "effects" /\ BothInDomain) =>
        /\ IsFinite(ret.facts.timeDilationFact.percent)
        /\ ret.facts.timeDilationFact.percent.v >= 0
        /\ IsFinite(ret.facts.redshiftFact.percent)
        /\ ret.facts.redshiftFact.percent.v >= 0

\* facts built from a negative redshift: its absolute value is printed
C16_Witness ==
    /\ ret.op = "effects"
    /\ BothInDomain
    /\ ret.effects.redshift.v < 0
    /\ ret.facts.redshiftFact.percent.v = -ret.effects.redshift.v
    /\ ret.facts.redshiftFact.percent.v > 0

\* C17: for observers in the valid domain at different radii,
\* timeDilationFact names as the slower clock the observer at the smaller
\* radius (the larger potential): Observer 2 when r2 < r1, Observer 1 when
\* r1 < r2; for mass = 10, r1 = 30, r2 = 20 it names Observer 2.
C17_SlowerClockIsDeeper ==
    (ret.op = "effects" /\ BothInDomain) =>
        /\ observer2Position < observer1Position =>
               /\ ret.effects.potential2.v > ret.effects.potential1.v
               /\ ret.facts.timeDilationFact.slower = 2
        /\ observer1Position < observer2Position =>
               /\ ret.effects.potential1.v > ret.effects.potential2.v
               /\ ret.facts.timeDilationFact.slower = 1

\* the facts for mass = 10, r1 = 30, r2 = 20
C17_Witness ==
    /\ ret.op = "effects"
    /\ mass = 10
    /\ observer1Position = 30
    /\ observer2Position = 20
    /\ ret.facts.timeDilationFact.slower = 2

\* the call of the example: mass = 10, observer 1 at 30, observer 2 at 20
ExampleCall ==
    /\ ret.op = "effects"
    /\ mass = 10
    /\ observer1Position = 30
    /\ observer2Position = 20

\* C18 as stated: the example gives potential1 = 0.333, potential2 = 0.5,
\* timeDilation1 = 1.0339, timeDilation2 = 1.0541 and relativeTimeDilation
\* = 1.0195.
C18_ExampleAsStated ==
    ExampleCall =>
        /\ Round3(ret.effects.potential1.v) = 333
        /\ Round3(ret.effects.potential2.v) = 500
        /\ Round4(ret.effects.timeDilation1.v) = 10339
        /\ Round4(ret.effects.timeDilation2.v) = 10541
        /\ Round4(ret.effects.relativeTimeDilation.v) = 10195

\* C18 as amended: the example gives potential1 = 0.333, potential2 = 0.5,
\* timeDilation1 = 1.0351, timeDilation2 = 1.0541 (four decimals) and
\* relativeTimeDilation = 1.01835 (five decimals).
C18_ExampleValues ==
    ExampleCall =>
        /\ Round3(ret.effects.potential1.v) = 333
        /\ Round3(ret.effects.potential2.v) = 500
        /\ Round4(ret.effects.timeDilation1.v) = 10351
        /\ Round4(ret.effects.timeDilation2.v) = 10541
        /\ Round5(ret.effects.relativeTimeDilation.v) = 101835

\* the example has been computed and observer 2's clock runs slower
C18_Witness ==
    /\ ExampleCall
    /\ FAboveOne(ret.effects.relativeTimeDilation)
    /\ IsFinite(ret.effects.timeDilation1)

\* C20: in the valid domain the time dilation of each observer is at least
\* 1, and equal to 1 only for potential 0; the relative time dilation
\* timeDilation2 / timeDilation1 exceeds 1 exactly when observer 2's radius
\* is smaller than observer 1's.
C20_TimeDilationAtLeastOne ==
    (ret.op = "effects" /\ BothInDomain) =>
        /\ IsFinite(ret.effects.timeDilation1)
        /\ IsFinite(ret.effects.timeDilation2)
        /\ ret.effects.timeDilation1.v >= ES
        /\ ret.effects.timeDilation2.v >= ES
        /\ ret.effects.timeDilation1.v = ES => ret.effects.potential1.v = 0
        /\ ret.effects.timeDilation2.v = ES => ret.effects.potential2.v = 0
        /\ FAboveOne(ret.effects.relativeTimeDilation)
               <=> observer2Position < observer1Position

\* the smallest mass and two neighbouring radii at the far end of the
\* sliders: the time dilations differ by less than 1/10000
C20_Witness ==
    /\ ret.op = "effects"
    /\ mass = 1
    /\ observer1Position = 50
    /\ observer2Position = 45
    /\ ret.effects.timeDilation2.v > ret.effects.timeDilation1.v
    /\ ret.effects.timeDilation1.v > ES
    /\ FAboveOne(ret.effects.relativeTimeDilation)

-----------------------------------------------------------------------------
(* Claims about the Kerr view (checked under SpecKerr) *)

\* C19 as stated: the outer horizon radius is (mass + sqrt(mass^2 -
\* spin^2)) * 0.1 and the inner one (mass - sqrt(mass^2 - spin^2)) * 0.1;
\* for mass = 10 and spin = 0.5 the outer horizon is 1.9994 to four
\* decimals, and for spin = mass the two are equal to mass * 0.1.
C19_KerrHorizonAsStated ==
    ret.op = "kerr" =>
        /\ ret.horizonRadius = (mass * ES + KerrRoot(mass, rotation)) \div 10
        /\ (mass = 10 /\ rotation = 5) => Round4(ret.horizonRadius) = 19994
        /\ rotation = 10 * mass =>
               /\ ret.rPlus = ret.rMinus
               /\ ret.horizonRadius = (mass * ES) \div 10

\* C19 as amended: the outer horizon radius is (mass + sqrt(mass^2 -
\* spin^2)) * 0.1, the inner radius mass - sqrt(mass^2 - spin^2) is not
\* scaled; the two radii are mass apart from their mean, the root squares
\* back to mass^2 - spin^2 within 0.01; for mass = 10 and spin = 0.5
\* the outer horizon is 1.9987 to four decimals, and for spin = mass (mass
\* = 1, rotation = 1) rPlus = rMinus = mass and the outer horizon is
\* mass * 0.1.
C19_KerrHorizon ==
    ret.op = "kerr" =>
        LET root == (ret.rPlus - ret.rMinus) \div 20000
            square == (100 * mass * mass - rotation * rotation) * 100
        IN  /\ ret.rPlus + ret.rMinus = 2 * mass * ES
            /\ ret.rPlus >= ret.rMinus
            /\ \E c \in {root - 1, root, root + 1} :
                   c >= 0 /\ c * c <= square /\ (c + 1) * (c + 1) > square
            /\ ret.horizonRadius = ret.rPlus \div 10
            /\ (mass = 10 /\ rotation = 5) => Round4(ret.horizonRadius) = 19987
            /\ rotation = 10 * mass =>
                   /\ ret.rPlus = mass * ES
                   /\ ret.rMinus = mass * ES
                   /\ ret.horizonRadius = (mass * ES) \div 10

\* the Kerr view rendered in the extremal case spin = mass
C19_Witness ==
    /\ ret.op = "kerr"
    /\ ~dirty
    /\ mass = 1
    /\ rotation = 10
    /\ ret.horizonRadius = 100000

-----------------------------------------------------------------------------
(* Further claims about the observer effects (checked under SpecEffects) *)

Min(a, b) == IF a <= b THEN a ELSE b

\* (1 + r12) * (1 + r21) in units of 1/ES, for two redshifts in units of 1/ES
RedshiftProduct(r12, r21) ==
    MulES(Min(ES + r12.v, ES + r21.v), Max(ES + r12.v, ES + r21.v))

\* C21: swapping the observers inverts the redshift: for both observers in
\* the valid domain, the redshift r12 of the call and the redshift r21 of
\* the call with the two radii exchanged are finite, have opposite signs and
\* satisfy (1 + r12) * (1 + r21) = 1 to four decimals.
C21_SwapInvertsRedshift ==
    (ret.op = "effects" /\ BothInDomain) =>
        LET r12 == ret.effects.redshift
            r21 == redshift(mass, observer2Position, observer1Position)
        IN  /\ IsFinite(r12)
            /\ IsFinite(r21)
            /\ (r12.v > 0) <=> (r21.v < 0)
            /\ Abs(RedshiftProduct(r12, r21) - ES) <= 50

\* a call with observer 2 much deeper than observer 1: the redshift is below
\* -0.5 and the redshift of the exchanged call above 1
C21_Witness ==
    /\ ret.op = "effects"
    /\ BothInDomain
    /\ ret.effects.redshift.v < -(ES \div 2)
    /\ redshift(mass, observer2Position, observer1Position).v > ES

-----------------------------------------------------------------------------
(* Further claims about the particle integrator (checked under             *)
(* SpecParticles)                                                          *)

\* C22: the trail is a first-in-first-out buffer of pre-step positions: a
\* call that does not absorb the particle appends the position held before
\* the call, keeps the earlier entries in their order and, once there are more
\* than 20, drops the oldest; a respawn starts again from the empty trail.  So
\* after k steps without absorption the trail holds the positions before each
\* of the last min(k, 20) steps, oldest first.
C22_TrailIsFifo ==
    [][steps' = steps + 1 =>
        \A i \in DOMAIN particles :
            LET p == particles[i]
                q == particles'[i]
                n == Len(p.trail)
                k == Len(q.trail)
            IN  IF RadiusSq(p) < HorizonSq(mass) THEN k = 0
                ELSE /\ k = Min(n + 1, 20)
                     /\ q.trail[k] = <<p.x, p.y>>
                     /\ \A j \in 1..(k - 1) : q.trail[j] = p.trail[j + (n + 1 - k)]]_vars

\* a moving particle has been stepped 23 times in a row: three of its
\* positions have been evicted and the trail ends where it stood a step ago
C22_Witness ==
    /\ steps = 23
    /\ dtArg = 1
    /\ \E i \in DOMAIN particles :
           LET t == particles[i].trail
           IN  /\ Len(t) = 20
               /\ t[19] # t[20]
               /\ t[20] # <<particles[i].x, particles[i].y>>

\* the acceleration of updateParticles in velocity units per unit of dt:
\* gravity -p * mass / r^3 and, only when rotation > 0, the frame-dragging
\* term rotation * mass / r^3 * 0.2 * (-y, x)
Acceleration(p, m, rot) ==
    LET r == Radius(p)
        g == Div(m * PS * PS * AS, r * r)
        drag == IF rot > 0
                THEN <<Div((-p.y) * rot * 2 * g, r * 100), Div(p.x * rot * 2 * g, r * 100)>>
                ELSE <<0, 0>>
    IN  <<Div((-p.x) * g, r) + drag[1], Div((-p.y) * g, r) + drag[2]>>

\* C23, as stated: a step of a particle that is not absorbed is an explicit
\* Euler step, the new position being p + v * dt with the velocity v held
\* before the step.
C23_ExplicitEuler ==
    [][steps' = steps + 1 =>
        \A i \in DOMAIN particles :
            LET p == particles[i]
                q == particles'[i]
                a == Acceleration(p, mass, rotation)
            IN  RadiusSq(p) >= HorizonSq(mass) =>
                    /\ q.vx = p.vx + a[1] * dtArg
                    /\ q.vy = p.vy + a[2] * dtArg
                    /\ q.x = p.x + Div(p.vx * dtArg, 1000)
                    /\ q.y = p.y + Div(p.vy * dtArg, 1000)]_vars

\* C23, amended: a step of a particle that is not absorbed is a semi-implicit
\* Euler step: the new velocity is v' = v + a * dt and the new position is
\* p + v' * dt, using the velocity just computed.
C23_SemiImplicitEuler ==
    [][steps' = steps + 1 =>
        \A i \in DOMAIN particles :
            LET p == particles[i]
                q == particles'[i]
                a == Acceleration(p, mass, rotation)
            IN  RadiusSq(p) >= HorizonSq(mass) =>
                    /\ q.vx = p.vx + a[1] * dtArg
                    /\ q.vy = p.vy + a[2] * dtArg
                    /\ q.x = p.x + Div(q.vx * dtArg, 1000)
                    /\ q.y = p.y + Div(q.vy * dtArg, 1000)]_vars

\* a particle of a rotating mass has been stepped with dt > 0 and stands
\* where the new velocity took it, not where the old one would have
C23_Witness ==
    /\ steps >= 1
    /\ dtArg = 1
    /\ rotation > 0
    /\ \E i \in DOMAIN particles :
           LET q == particles[i]
               t == q.trail
           IN  /\ t # <<>>
               /\ <<q.x - Div(q.vx, 1000), q.y - Div(q.vy, 1000)>> = t[Len(t)]
               /\ q.vx # 0
               /\ Len(t) >= 2 => t[Len(t)] # t[Len(t) - 1]

-----------------------------------------------------------------------------
(* Claims about the merger loop (checked under SpecMergerLoop) and the     *)
(* animation-frame callbacks (checked under Spec)                          *)

\* the last render of the merger view found the separation at its floor
AtMerger == ret.op = "merger" /\ ret.separation <= 5 * TS

\* C24: while the merger view stays active and running and due renders are
\* made, the separation reaches 5 again and again, each time the reset of
\* frameTime to 0 is queued (the next frameTime is 0, or 0.1 if the animation
\* frame ran in between), and again and again the view is back above 5: the
\* animation loops and never stays merged.
C24_MergerLoops ==
    /\ []<>(AtMerger /\ queue # <<>> /\ queue[1] = Set(0))
    /\ []<>(ret.op = "merger" /\ ret.separation > 5 * TS /\ ret.time <= 10)
    /\ [](AtMerger => ApplyQueue(frameTime, queue) <= 10)

\* the view has merged, the reset is queued and the animation frame requested
\* by that render has run as well
C24_Witness ==
    /\ AtMerger
    /\ frameTime >= 6932
    /\ queue = <<Set(0), Add(10)>>
    /\ rafPending = {}

\* C28: at most one requestAnimationFrame callback is pending at any time,
\* and it is the one animationRef.current names: the callback of the previous
\* run of the effect has run or has been cancelled by the cleanup before the
\* next one is requested.
C28_OneCallbackPending ==
    /\ Cardinality(rafPending) <= 1
    /\ rafPending \subseteq {animationRef}

\* the particle view has been rendered twice in a row while running: the
\* callback of the first render was cancelled before it ran (frameTime holds
\* only the render's own 0.1) and the one of the second render is pending
C28_Witness ==
    /\ activeTab = "particles"
    /\ simulationRunning
    /\ steps = 2
    /\ frameTime = 10
    /\ rafPending = {animationRef}

-----------------------------------------------------------------------------
(* Claims about the facts (checked under SpecEffects) *)

\* C25: when formatTimeDifference breaks a seconds value >= 60 down, each
\* part is smaller than the next larger unit: months is in 0..11, days in
\* 0..29, hours in 0..23, minutes in 0..59 and seconds in 0..59, and the
\* returned string is not empty.
C25_BreakdownInRange ==
    (ret.op = "effects" /\ BothInDomain /\ ret.facts.clockFact.kind = "breakdown") =>
        LET f == ret.facts.clockFact
        IN  /\ f.months \in 0..11
            /\ f.days \in 0..29
            /\ f.hours \in 0..23
            /\ f.minutes \in 0..59
            /\ f.seconds \in 0..59
            /\ ~f.empty

\* C26: the time-dilation fact and the redshift fact agree on direction: for
\* observers in the valid domain, when r2 < r1 both name Observer 2 (the
\* slower clock, and the source whose light appears redshifted to Observer
\* 1), and when r1 < r2 both name Observer 1.
C26_FactsAgreeOnDirection ==
    (ret.op = "effects" /\ BothInDomain) =>
        /\ observer2Position < observer1Position =>
               /\ ret.facts.timeDilationFact.slower = 2
               /\ ret.facts.redshiftFact.from = 2
        /\ observer1Position < observer2Position =>
               /\ ret.facts.timeDilationFact.slower = 1
               /\ ret.facts.redshiftFact.from = 1

\* C27 (checked under Spec): whatever renders, start/pause toggles, mass or
\* rotation changes and particle-count or particle-speed changes came
\* before, a render of the particle view leaves as many particles as the
\* particleCount setting says; between renders the set is empty (after a
\* slider reset) or has that size.
C27_CountMatchesSetting ==
    /\ [](particles = <<>> \/ Len(particles) = particleCount)
    /\ [][RenderParticleView => Len(particles') = particleCount']_vars

\* the count slider was moved from 1 to 2, a speed or mass change followed,
\* and the running particle view holds two stepped particles
C27_Witness ==
    /\ activeTab = "particles"
    /\ particleCount = 2
    /\ Len(particles) = 2
    /\ changes = 3
    /\ steps >= 1
    /\ \E i \in DOMAIN particles : particles[i].trail # <<>>

\* C29 (checked under SpecRespawn): for every mass of the slider, 1..50, and
\* whatever the mass was before, a particle that has just been created or
\* respawned lies at or outside the horizon radius 2 * mass * 0.1, so the
\* next call does not respawn it again.
C29_FreshParticleOutsideHorizon ==
    /\ [](\A i \in DOMAIN particles :
             JustRespawned(particles[i]) =>
                 \A m \in MassMin..MassMax : RadiusSq(particles[i]) >= HorizonSq(m))
    /\ [][steps' = steps + 1 =>
            \A i \in DOMAIN particles :
                JustRespawned(particles[i]) => ~JustRespawned(particles'[i])]_vars

-----------------------------------------------------------------------------
(* Further claims about the light rays (checked under SpecGeometry) *)

\* C30: with rotation = 0 every ray stays on the radial line through its
\* start point, on the side it started from, moves 0.5 closer to the origin
\* per step (after j steps its radius is sourceDistance - 0.5 * j to within
\* 0.05, positions and velocities being rounded to thousandths), and is
\* ended by the r < 2.5 truncation before the 100 steps are used up, so it
\* has fewer than 101 samples.
C30_RadialInfall ==
    (ret.op = "lightPaths" /\ rotation = 0) =>
        \A i \in DOMAIN ret.paths :
            LET path == ret.paths[i]
                cos == RayDirs[i][1]
                sin == RayDirs[i][2]
            IN  /\ Len(path) < 101
                /\ path[Len(path)].r < RayCutoff + 550
                /\ \A k \in DOMAIN path :
                       /\ path[k].x.v * sin - path[k].y.v * cos = 0
                       /\ path[k].x.v * cos + path[k].y.v * sin > 0
                       /\ k > 1 => path[k].r < path[k - 1].r
                       /\ Abs(path[k].r - (observer1Position * RS - 500 * (k - 1))) <= 50

\* the rays of the largest mass from the largest source radius: the ray along
\* the x axis is cut after 95 steps, at radius 2.5
C30_Witness ==
    /\ ret.op = "lightPaths"
    /\ rotation = 0
    /\ mass = 50
    /\ observer1Position = 50
    /\ Len(ret.paths[1]) = 96
    /\ ret.paths[1][96].r = 2500
    /\ Len(ret.paths[2]) \in 90..100

====
